---------------------------- MODULE Spec2Model ----------------------------
(***************************************************************************)
(* Model of the `semver` command line tool (src/src/main.rs): one run      *)
(* detects the current version in composer.json, package.json or VERSION,  *)
(* bumps it and writes the new version back to the files that carry one.   *)
(*                                                                         *)
(* Strings whose characters matter (version strings, the VERSION file, the *)
(* line read from standard input) are sequences of one-character strings.  *)
(* A manifest's content is the JSON document it holds, up to whitespace:   *)
(* an object is the sequence of its members in the order of the text.      *)
(* Member names of an object are pairwise distinct in every initial state. *)
(***************************************************************************)
EXTENDS Integers, Sequences, FiniteSets, TLC

(***************************************************************************)
(* Characters                                                              *)
(***************************************************************************)
Digit == {"0", "1", "2", "3", "4", "5", "6", "7", "8", "9"}

Letter ==
    {"a", "b", "c", "d", "e", "f", "g", "h", "i", "j", "k", "l", "m",
     "n", "o", "p", "q", "r", "s", "t", "u", "v", "w", "x", "y", "z",
     "A", "B", "C", "D", "E", "F", "G", "H", "I", "J", "K", "L", "M",
     "N", "O", "P", "Q", "R", "S", "T", "U", "V", "W", "X", "Y", "Z"}

Whitespace == {" ", "\n", "\t", "\r"}

MAJOR == <<"m", "a", "j", "o", "r">>
MINOR == <<"m", "i", "n", "o", "r">>
PATCH == <<"p", "a", "t", "c", "h">>

\* The `choices` of the prompt.
Kinds == {MAJOR, MINOR, PATCH}

(***************************************************************************)
(* str::trim                                                               *)
(***************************************************************************)
RECURSIVE TrimStart(_)
TrimStart(s) ==
    IF s = <<>> THEN <<>>
    ELSE IF Head(s) \in Whitespace THEN TrimStart(Tail(s)) ELSE s

RECURSIVE TrimEnd(_)
TrimEnd(s) ==
    IF s = <<>> THEN <<>>
    ELSE IF s[Len(s)] \in Whitespace THEN TrimEnd(SubSeq(s, 1, Len(s) - 1))
    ELSE s

Trim(s) == TrimEnd(TrimStart(s))

(***************************************************************************)
(* Decimal numbers: u64::to_string and the numeric identifiers of a        *)
(* version.                                                                *)
(***************************************************************************)
DigitChar(d) ==
    CASE d = 0 -> "0" [] d = 1 -> "1" [] d = 2 -> "2" [] d = 3 -> "3"
      [] d = 4 -> "4" [] d = 5 -> "5" [] d = 6 -> "6" [] d = 7 -> "7"
      [] d = 8 -> "8" [] d = 9 -> "9"

DigitVal(c) ==
    CASE c = "0" -> 0 [] c = "1" -> 1 [] c = "2" -> 2 [] c = "3" -> 3
      [] c = "4" -> 4 [] c = "5" -> 5 [] c = "6" -> 6 [] c = "7" -> 7
      [] c = "8" -> 8 [] c = "9" -> 9

RECURSIVE NatToStr(_)
NatToStr(n) ==
    IF n < 10 THEN <<DigitChar(n)>>
    ELSE NatToStr(n \div 10) \o <<DigitChar(n % 10)>>

RECURSIVE StrToNat(_)
StrToNat(s) ==
    IF s = <<>> THEN 0
    ELSE 10 * StrToNat(SubSeq(s, 1, Len(s) - 1)) + DigitVal(s[Len(s)])

AllDigits(s) == \A i \in 1..Len(s) : s[i] \in Digit

\* A numeric identifier: digits, non-empty, no leading zero.
NumericOk(s) ==
    /\ s # <<>>
    /\ AllDigits(s)
    /\ (Len(s) = 1 \/ s[1] # "0")

(***************************************************************************)
(* semver::Version::parse and Version::to_string                           *)
(***************************************************************************)
IndexOf(s, c) ==
    IF \E i \in 1..Len(s) : s[i] = c
    THEN CHOOSE i \in 1..Len(s) : s[i] = c /\ \A j \in 1..(i - 1) : s[j] # c
    ELSE 0

RECURSIVE Split(_, _)
Split(s, sep) ==
    LET i == IndexOf(s, sep) IN
    IF i = 0 THEN <<s>>
    ELSE <<SubSeq(s, 1, i - 1)>> \o Split(SubSeq(s, i + 1, Len(s)), sep)

IdentChars(s) == \A i \in 1..Len(s) : s[i] \in Digit \cup Letter \cup {"-"}

\* Pre-release: dot-separated non-empty identifiers, numeric ones without
\* leading zeros.
PrereleaseOk(s) ==
    LET segs == Split(s, ".") IN
    \A i \in 1..Len(segs) :
        /\ segs[i] # <<>>
        /\ IdentChars(segs[i])
        /\ (AllDigits(segs[i]) => NumericOk(segs[i]))

\* Build metadata: dot-separated non-empty identifiers.
BuildOk(s) ==
    LET segs == Split(s, ".") IN
    \A i \in 1..Len(segs) : segs[i] # <<>> /\ IdentChars(segs[i])

EmptyVersion == [major |-> 0, minor |-> 0, patch |-> 0, pre |-> <<>>, build |-> <<>>]

\* Version::parse: [ok, v]. MAJOR.MINOR.PATCH[-PRERELEASE][+BUILD], nothing
\* before or after it.
VersionParse(s) ==
    LET p     == IndexOf(s, "+")
        front == IF p = 0 THEN s ELSE SubSeq(s, 1, p - 1)
        build == IF p = 0 THEN <<>> ELSE SubSeq(s, p + 1, Len(s))
        h     == IndexOf(front, "-")
        core  == IF h = 0 THEN front ELSE SubSeq(front, 1, h - 1)
        pre   == IF h = 0 THEN <<>> ELSE SubSeq(front, h + 1, Len(front))
        nums  == Split(core, ".")
        ok    == /\ Len(nums) = 3
                 /\ \A i \in 1..3 : NumericOk(nums[i])
                 /\ (h # 0 => PrereleaseOk(pre))
                 /\ (p # 0 => BuildOk(build))
    IN  IF ok
        THEN [ok |-> TRUE,
              v  |-> [major |-> StrToNat(nums[1]), minor |-> StrToNat(nums[2]),
                      patch |-> StrToNat(nums[3]), pre |-> pre, build |-> build]]
        ELSE [ok |-> FALSE, v |-> EmptyVersion]

VersionToString(v) ==
    NatToStr(v.major) \o <<".">> \o NatToStr(v.minor) \o <<".">> \o NatToStr(v.patch)
      \o (IF v.pre = <<>> THEN <<>> ELSE <<"-">> \o v.pre)
      \o (IF v.build = <<>> THEN <<>> ELSE <<"+">> \o v.build)

(***************************************************************************)
(* JSON documents and the two ways the program deserializes them           *)
(***************************************************************************)
JStr(s) == [t |-> "str", v |-> s]
JNum(s) == [t |-> "num", v |-> s]

Member(k, val) == [key |-> k, val |-> val]

Object(ms) == [kind |-> "object", members |-> ms]
ArrayDoc   == [kind |-> "array", members |-> <<>>]    \* valid JSON, not an object
Garbage    == [kind |-> "garbage", members |-> <<>>]  \* not JSON at all
NoDoc      == [kind |-> "none", members |-> <<>>]     \* content of a missing file

\* serde_json::from_str::<ComposerJson> / <PackageJson>: a struct with a
\* required `version: String` and every other member flattened into `other`.
\* [ok, version]; a second `version` member is a duplicate-field error.
RECURSIVE VisitStruct(_, _, _)
VisitStruct(ms, seen, ver) ==
    IF ms = <<>> THEN [ok |-> seen, version |-> ver]
    ELSE LET m == Head(ms) IN
         IF m.key = "version"
         THEN IF seen \/ m.val.t # "str"
              THEN [ok |-> FALSE, version |-> <<>>]
              ELSE VisitStruct(Tail(ms), TRUE, m.val.v)
         ELSE VisitStruct(Tail(ms), seen, ver)

StructFromStr(doc) ==
    IF doc.kind # "object" THEN [ok |-> FALSE, version |-> <<>>]
    ELSE VisitStruct(doc.members, FALSE, <<>>)

\* IndexMap::insert: a new key is appended, an existing key keeps its place
\* and takes the new value.
MapIndex(map, k) ==
    IF \E i \in 1..Len(map) : map[i].key = k
    THEN CHOOSE i \in 1..Len(map) : map[i].key = k
    ELSE 0

MapInsert(map, k, val) ==
    LET i == MapIndex(map, k) IN
    IF i = 0 THEN Append(map, Member(k, val))
    ELSE [map EXCEPT ![i] = Member(k, val)]

RECURSIVE VisitMap(_, _)
VisitMap(ms, map) ==
    IF ms = <<>> THEN map
    ELSE VisitMap(Tail(ms), MapInsert(map, Head(ms).key, Head(ms).val))

\* serde_json::from_str::<OrderedJson>: [ok, map].
OrderedFromStr(doc) ==
    IF doc.kind # "object" THEN [ok |-> FALSE, map |-> <<>>]
    ELSE [ok |-> TRUE, map |-> VisitMap(doc.members, <<>>)]

\* serde_json::to_string_pretty(&ordered): the members in the map's order.
ToStringPretty(map) == Object(map)

(***************************************************************************)
(* Files                                                                   *)
(***************************************************************************)
File(r, w, c) == [exists |-> TRUE, readable |-> r, writable |-> w, content |-> c]

MissingManifest == [exists |-> FALSE, readable |-> FALSE, writable |-> FALSE, content |-> NoDoc]
MissingText     == [exists |-> FALSE, readable |-> FALSE, writable |-> FALSE, content |-> <<>>]

\* fs::write(path, data) on an existing file: Err leaves the file as it was.
FsWrite(f, data) == IF f.writable THEN [f EXCEPT !.content = data] ELSE f

(***************************************************************************)
(* Bounds and program constants                                            *)
(***************************************************************************)
\* Number of consecutive invocations of the tool on the same directory.
MaxRuns == 2

ExitSuccess   == 0    \* main returns
ExitFailure   == 1    \* exit(1)
ExitPanic     == 101  \* .expect("Invalid semantic version") panics
ExitInterrupt == 130  \* std::process::exit(130)

(***************************************************************************)
(* State                                                                   *)
(***************************************************************************)
VARIABLES
    composer,         \* the file composer.json
    package,          \* the file package.json
    versionFile,      \* the file VERSION
    pc,               \* position in main
    exit_code,        \* the process's exit status, once pc = "exited"
    stdout,           \* lines printed to standard output so far
    stderr,           \* diagnostics printed so far
    current_version,  \* main's current_version
    source,           \* the file get_current_version returned from
    version,          \* main's version: Version
    bump_type,        \* main's bump_type
    new_version,      \* main's new_version
    input,            \* what the run is given: --bump, the Select outcome, the stdin line
    start,            \* the three files as they were when the run started
    trace,            \* the steps of main taken so far in this run
    runs,             \* invocations so far
    prev              \* the previous invocation's outcome

vars == <<composer, package, versionFile, pc, exit_code, stdout, stderr, current_version,
          source, version, bump_type, new_version, input, start, trace, runs, prev>>

(***************************************************************************)
(* Inputs                                                                  *)
(***************************************************************************)
\* Args::parse(): --bump absent, or given with some value. The prompt's
\* outcome and the line of standard input are unread until the prompt runs.
NoFlag == [flag |-> "none", bump |-> <<>>, select |-> "unread",
           choice |-> <<>>, line |-> <<>>]

Flag(b) == [NoFlag EXCEPT !.flag = "some", !.bump = b]

\* Values of --bump other than the three kinds.
OtherFlags == {<<"M", "a", "j", "o", "r">>, <<>>}

\* Lines typed at the fallback prompt.
StdinLines == {<<"m", "a", "j", "o", "r", "\n">>, <<" ", "m", "i", "n", "o", "r", " ", "\n">>,
               <<"\n">>, <<>>, <<"M", "i", "n", "o", "r", "\n">>}

Args == {NoFlag} \cup {Flag(b) : b \in Kinds \cup OtherFlags}

V010     == <<"0", ".", "1", ".", "0">>
V999     == <<"9", ".", "9", ".", "9">>
V105     == <<"1", ".", "0", ".", "5">>
V222     == <<"2", ".", "2", ".", "2">>
V009     == <<"0", ".", "0", ".", "9">>
VPreBld  == <<"1", ".", "2", ".", "9", "-", "r", "c", ".", "1", "+", "b", "5">>
VPre     == <<"0", ".", "9", ".", "0", "-", "a", "-", "b">>
VLeading == <<"0", "1", ".", "2", ".", "3">>
VWord    == <<"a", "b", "c">>
VSpace   == <<" ", "1", ".", "0", ".", "5">>

NameVal == JStr(<<"a", "c", "m", "e">>)
TypeVal == JStr(<<"l", "i", "b">>)

\* Documents a manifest may hold, for the version strings in `vs`.
Docs(vs) ==
    {Object(<<Member("version", JStr(v))>>) : v \in vs}
    \cup {Object(<<Member("name", NameVal), Member("version", JStr(v)),
                   Member("type", TypeVal)>>) : v \in vs}
    \cup {Object(<<Member("name", NameVal)>>),
          Object(<<Member("version", JNum(<<"2">>)), Member("name", NameVal)>>),
          ArrayDoc, Garbage}

\* A readable file may be read-only; the content of an unreadable manifest is
\* never seen by the program.
Manifests(vs, v0) ==
    {MissingManifest}
    \cup {File(TRUE, TRUE, d) : d \in Docs(vs)}
    \cup {File(TRUE, FALSE, Object(<<Member("name", NameVal), Member("version", JStr(v0))>>)),
          File(FALSE, TRUE, Object(<<Member("version", JStr(v0))>>))}

ComposerFiles == Manifests({V010, VWord}, V010)
PackageFiles  == Manifests({V999, VSpace}, V105)

VersionFiles ==
    {MissingText}
    \cup {File(TRUE, TRUE, c) :
            c \in {V222, V009 \o <<"\n">>, <<" ">> \o VPre \o <<"\r", "\n">>,
                   VPreBld, VLeading, <<>>}}
    \cup {File(TRUE, FALSE, V222), File(FALSE, TRUE, V009)}

(***************************************************************************)
(* The functions of main.rs                                                *)
(***************************************************************************)
NotFound == [found |-> FALSE, version |-> <<>>, source |-> "none"]
Found(v, src) == [found |-> TRUE, version |-> v, source |-> src]

\* Whether a manifest file yields a version to get_current_version.
ManifestVersion(f) ==
    IF f.exists /\ f.readable THEN StructFromStr(f.content)
    ELSE [ok |-> FALSE, version |-> <<>>]

\* A source whose string is not a valid semantic version is skipped.
get_current_version_FirstValid(c, p, v) ==
    IF ManifestVersion(c).ok /\ VersionParse(ManifestVersion(c).version).ok
    THEN Found(ManifestVersion(c).version, "composer.json")
    ELSE IF ManifestVersion(p).ok /\ VersionParse(ManifestVersion(p).version).ok
    THEN Found(ManifestVersion(p).version, "package.json")
    ELSE IF v.exists /\ v.readable THEN Found(Trim(v.content), "VERSION")
    ELSE NotFound

\* package.json probed before composer.json.
get_current_version_PackageFirst(c, p, v) ==
    IF ManifestVersion(p).ok THEN Found(ManifestVersion(p).version, "package.json")
    ELSE IF ManifestVersion(c).ok THEN Found(ManifestVersion(c).version, "composer.json")
    ELSE IF v.exists /\ v.readable THEN Found(Trim(v.content), "VERSION")
    ELSE NotFound

\* get_current_version: Option<String>, with the file it came from.
get_current_version(c, p, v) ==
    IF ManifestVersion(c).ok THEN Found(ManifestVersion(c).version, "composer.json")
    ELSE IF ManifestVersion(p).ok THEN Found(ManifestVersion(p).version, "package.json")
    ELSE IF v.exists /\ v.readable THEN Found(Trim(v.content), "VERSION")
    ELSE NotFound

\* The minor arm without `version.patch = 0`.
BumpVersion_MinorKeepsPatch(v, k) ==
    LET w == IF k = MAJOR THEN [v EXCEPT !.major = v.major + 1, !.minor = 0, !.patch = 0]
             ELSE IF k = MINOR THEN [v EXCEPT !.minor = v.minor + 1]
             ELSE [v EXCEPT !.patch = v.patch + 1]
    IN  [w EXCEPT !.pre = <<>>, !.build = <<>>]

\* The arms of `match bump_type.as_str()` followed by the reset of pre and
\* build; only called with one of the three kinds.
BumpVersion(v, k) ==
    LET w == IF k = MAJOR THEN [v EXCEPT !.major = v.major + 1, !.minor = 0, !.patch = 0]
             ELSE IF k = MINOR THEN [v EXCEPT !.minor = v.minor + 1, !.patch = 0]
             ELSE [v EXCEPT !.patch = v.patch + 1]
    IN  [w EXCEPT !.pre = <<>>, !.build = <<>>]

\* `version` removed and inserted again: it moves to the end of the map.
SetVersion_RemoveInsert(map, nv) ==
    LET i == MapIndex(map, "version") IN
    Append(SubSeq(map, 1, i - 1) \o SubSeq(map, i + 1, Len(map)),
           Member("version", JStr(nv)))

\* `*version = new_version.to_string()` through map.get_mut("version").
SetVersion(map, nv) ==
    [map EXCEPT ![MapIndex(map, "version")] = Member("version", JStr(nv))]

\* `version` set with insert whether or not the document has a string `version`.
update_json_version_Inserts(f, nv) ==
    IF ~f.exists THEN f
    ELSE IF ~f.readable THEN f
    ELSE LET ordered == OrderedFromStr(f.content) IN
         IF ~ordered.ok THEN f
         ELSE FsWrite(f, ToStringPretty(MapInsert(ordered.map, "version", JStr(nv))))

\* update_json_version(path, new_version): the file afterwards.
update_json_version(f, nv) ==
    IF ~f.exists THEN f
    ELSE IF ~f.readable THEN f
    ELSE LET ordered == OrderedFromStr(f.content)
             i       == MapIndex(ordered.map, "version")
         IN  IF ~ordered.ok THEN f
             ELSE IF i # 0 /\ ordered.map[i].val.t = "str"
                  THEN FsWrite(f, ToStringPretty(SetVersion(ordered.map, nv)))
                  ELSE f

\* The VERSION file opened for append: the new version lands after the old
\* content.
update_version_file_Appends(f, nv) ==
    IF f.exists THEN FsWrite(f, f.content \o nv) ELSE f

\* update_version_file(new_version): the file afterwards.
update_version_file(f, nv) ==
    IF f.exists THEN FsWrite(f, nv) ELSE f

\* The fallback prompt without its default arms.
FallbackChoice_NoDefault(line) == Trim(line)

\* The match of the fallback prompt on the trimmed line.
FallbackChoice(line) ==
    LET trimmed == Trim(line) IN
    IF trimmed \in Kinds THEN trimmed ELSE PATCH

\* Both manifests first, the VERSION file last.
UpdateOrder_ManifestsFirst ==
    <<"update_composer_json", "update_package_json", "update_version_file">>

\* The three updater calls of main, in the order main makes them.
UpdateOrder == <<"update_package_json", "update_version_file", "update_composer_json">>

AfterUpdate(p) ==
    LET i == CHOOSE j \in 1..Len(UpdateOrder) : UpdateOrder[j] = p IN
    IF i = Len(UpdateOrder) THEN "return" ELSE UpdateOrder[i + 1]

(***************************************************************************)
(* Initial state: a directory and a fresh process                          *)
(***************************************************************************)
NoPrev == [ran |-> FALSE, exit_code |-> 0, new_version |-> <<>>, source |-> "none"]

Init ==
    /\ composer \in ComposerFiles
    /\ package \in PackageFiles
    /\ versionFile \in VersionFiles
    /\ pc = "locate"
    /\ exit_code = 0
    /\ stdout = <<>>
    /\ stderr = <<>>
    /\ current_version = <<>>
    /\ source = "none"
    /\ version = EmptyVersion
    /\ bump_type = <<>>
    /\ new_version = <<>>
    /\ input \in Args
    /\ start = [composer |-> composer, package |-> package, versionFile |-> versionFile]
    /\ trace = <<>>
    /\ runs = 1
    /\ prev = NoPrev

files == <<composer, package, versionFile>>
ghost == <<start, runs, prev>>

\* Every exit reports success.
Exit_Zero(code) == pc' = "exited" /\ exit_code' = 0

\* The process ends with status `code`.
Exit(code) == pc' = "exited" /\ exit_code' = code

(***************************************************************************)
(* main, one action per statement                                          *)
(***************************************************************************)
\* let current_version = get_current_version().unwrap_or_else(|| exit(1))
Locate ==
    /\ pc = "locate"
    /\ LET r == get_current_version(composer, package, versionFile) IN
       IF r.found
       THEN /\ current_version' = r.version
            /\ source' = r.source
            /\ pc' = "parse"
            /\ UNCHANGED <<exit_code, stderr>>
       ELSE /\ stderr' = Append(stderr, "No version found in composer.json, package.json, or VERSION file.")
            /\ Exit(ExitFailure)
            /\ UNCHANGED <<current_version, source>>
    /\ trace' = Append(trace, "Locate")
    /\ UNCHANGED <<files, stdout, version, bump_type, new_version, input, ghost>>

\* let mut version = Version::parse(&current_version).expect(..)
Parse ==
    /\ pc = "parse"
    /\ LET r == VersionParse(current_version) IN
       IF r.ok
       THEN /\ version' = r.v
            /\ stdout' = Append(stdout, <<"Current version: ", VersionToString(r.v)>>)
            /\ pc' = "resolve"
            /\ UNCHANGED <<exit_code, stderr>>
       ELSE /\ stderr' = Append(stderr, "Invalid semantic version")
            /\ Exit(ExitPanic)
            /\ UNCHANGED <<version, stdout>>
    /\ trace' = Append(trace, "Parse")
    /\ UNCHANGED <<files, current_version, source, bump_type, new_version, input, ghost>>

\* args.bump is Some(b): prompt_bump_type is not called.
ResolveFlag ==
    /\ pc = "resolve"
    /\ input.flag = "some"
    /\ bump_type' = input.bump
    /\ pc' = "compute"
    /\ trace' = Append(trace, "Resolve-Bump-Type")
    /\ UNCHANGED <<files, exit_code, stdout, stderr, current_version, source, version,
                   new_version, input, ghost>>

\* args.bump is None and Select::prompt returns Ok(choice).
PromptSelect ==
    /\ pc = "resolve"
    /\ input.flag = "none"
    /\ \E c \in Kinds :
         /\ input' = [input EXCEPT !.select = "ok", !.choice = c]
         /\ bump_type' = c
    /\ pc' = "compute"
    /\ trace' = Append(trace, "Resolve-Bump-Type")
    /\ UNCHANGED <<files, exit_code, stdout, stderr, current_version, source, version,
                   new_version, ghost>>

\* args.bump is None and Select::prompt returns OperationCanceled or
\* OperationInterrupted.
PromptCancel ==
    /\ pc = "resolve"
    /\ input.flag = "none"
    /\ \E e \in {"canceled", "interrupted"} :
         input' = [input EXCEPT !.select = e]
    /\ Exit(ExitInterrupt)
    /\ trace' = Append(trace, "Resolve-Bump-Type")
    /\ UNCHANGED <<files, stdout, stderr, current_version, source, version, bump_type,
                   new_version, ghost>>

\* args.bump is None and Select::prompt fails otherwise: one line of stdin.
PromptFallback ==
    /\ pc = "resolve"
    /\ input.flag = "none"
    /\ \E l \in StdinLines :
         /\ input' = [input EXCEPT !.select = "error", !.line = l]
         /\ bump_type' = FallbackChoice(l)
         /\ stderr' = IF Trim(l) \in Kinds \/ Trim(l) = <<>> THEN stderr
                      ELSE Append(stderr, "Invalid input. Defaulting to patch.")
    /\ stdout' = stdout \o
         << <<"What would you like to bump? [major|minor|patch] (default: patch): ", <<>> >>,
            <<"> ", <<>> >> >>
    /\ pc' = "compute"
    /\ trace' = Append(trace, "Resolve-Bump-Type")
    /\ UNCHANGED <<files, exit_code, current_version, source, version,
                   new_version, ghost>>

\* match bump_type.as_str() { .. }, the reset of pre and build, to_string
Compute ==
    /\ pc = "compute"
    /\ IF bump_type \in Kinds
       THEN /\ version' = BumpVersion(version, bump_type)
            /\ new_version' = VersionToString(version')
            /\ stdout' = Append(stdout, <<"Bumping version ", current_version \o
                                          <<" ", "→", " ">> \o new_version'>>)
            /\ pc' = UpdateOrder[1]
            /\ UNCHANGED <<exit_code, stderr>>
       ELSE /\ stderr' = Append(stderr, "Invalid bump type")
            /\ Exit(ExitFailure)
            /\ UNCHANGED <<version, new_version, stdout>>
    /\ trace' = Append(trace, "Compute-New-Version")
    /\ UNCHANGED <<files, current_version, source, bump_type, input, ghost>>

Locals == <<exit_code, stdout, stderr, current_version, source, version, bump_type,
            new_version, input, ghost>>

\* package.json updated only when the version was detected from it.
UpdatePackageJson_OnlySource ==
    /\ pc = "update_package_json"
    /\ package' = IF source = "package.json"
                  THEN update_json_version(package, new_version) ELSE package
    /\ pc' = AfterUpdate(pc)
    /\ trace' = Append(trace, "Update(package.json)")
    /\ UNCHANGED <<composer, versionFile, Locals>>

\* update_package_json(&new_version)
UpdatePackageJson ==
    /\ pc = "update_package_json"
    /\ package' = update_json_version(package, new_version)
    /\ pc' = AfterUpdate(pc)
    /\ trace' = Append(trace, "Update(package.json)")
    /\ UNCHANGED <<composer, versionFile, Locals>>

\* update_version_file(&new_version)
UpdateVersionFile ==
    /\ pc = "update_version_file"
    /\ versionFile' = update_version_file(versionFile, new_version)
    /\ pc' = AfterUpdate(pc)
    /\ trace' = Append(trace, "Update(VERSION)")
    /\ UNCHANGED <<composer, package, Locals>>

\* update_composer_json(&new_version)
UpdateComposerJson ==
    /\ pc = "update_composer_json"
    /\ composer' = update_json_version(composer, new_version)
    /\ pc' = AfterUpdate(pc)
    /\ trace' = Append(trace, "Update(composer.json)")
    /\ UNCHANGED <<package, versionFile, Locals>>

\* main returns
Return ==
    /\ pc = "return"
    /\ Exit(ExitSuccess)
    /\ trace' = Append(trace, "Exit(0)")
    /\ UNCHANGED <<files, stdout, stderr, current_version, source, version, bump_type,
                   new_version, input, ghost>>

\* The tool is invoked again in the same directory after a successful run. (A
\* failed run leaves the directory as it was: the invocation that follows it
\* starts from a state Init already describes.)
NextRun ==
    /\ pc = "exited"
    /\ exit_code = ExitSuccess
    /\ runs < MaxRuns
    /\ runs' = runs + 1
    /\ prev' = [ran |-> TRUE, exit_code |-> exit_code, new_version |-> new_version,
                source |-> source]
    /\ start' = [composer |-> composer, package |-> package, versionFile |-> versionFile]
    /\ pc' = "locate"
    /\ exit_code' = 0
    /\ stdout' = <<>>
    /\ stderr' = <<>>
    /\ current_version' = <<>>
    /\ source' = "none"
    /\ version' = EmptyVersion
    /\ bump_type' = <<>>
    /\ new_version' = <<>>
    /\ input' \in Args
    /\ trace' = <<>>
    /\ UNCHANGED files

Next ==
    \/ Locate
    \/ Parse
    \/ ResolveFlag
    \/ PromptSelect
    \/ PromptCancel
    \/ PromptFallback
    \/ Compute
    \/ UpdatePackageJson
    \/ UpdateVersionFile
    \/ UpdateComposerJson
    \/ Return
    \/ NextRun

Spec == Init /\ [][Next]_vars

(***************************************************************************)
(* Vocabulary of the properties                                            *)
(***************************************************************************)
Took(step) == \E i \in 1..Len(trace) : trace[i] = step

Succeeded == pc = "exited" /\ exit_code = ExitSuccess
Failed    == pc = "exited" /\ exit_code # ExitSuccess

FilesUntouched ==
    /\ composer = start.composer
    /\ package = start.package
    /\ versionFile = start.versionFile

\* A JSON object with a top-level string `version` member.
HasStringVersion(doc) ==
    /\ doc.kind = "object"
    /\ \E i \in 1..Len(doc.members) :
         doc.members[i].key = "version" /\ doc.members[i].val.t = "str"

TopVersion(doc) ==
    LET i == CHOOSE j \in 1..Len(doc.members) : doc.members[j].key = "version"
    IN  doc.members[i].val.v

KeysOf(doc) == [i \in 1..Len(doc.members) |-> doc.members[i].key]

\* A manifest that qualifies as a source of the current version.
Qualifies(f) == f.exists /\ f.readable /\ HasStringVersion(f.content)

\* The VERSION file qualifies when it can be read.
QualifiesText(f) == f.exists /\ f.readable

IsSemver(s) == VersionParse(s).ok

Computed == Took("Compute-New-Version") /\ ~Failed

(***************************************************************************)
(* C1: for every valid version (major, minor, patch, pre, build) and every *)
(* bump kind, the bumped version is (major+1, 0, 0) for major,             *)
(* (major, minor+1, 0) for minor and (major, minor, patch+1) for patch,    *)
(* and in all three cases it has neither pre-release nor build metadata;   *)
(* the new version string is the canonical rendering of exactly that.      *)
(***************************************************************************)
C1_BumpRule ==
    Computed =>
      LET v == VersionParse(current_version).v IN
      /\ bump_type = MAJOR =>
           version.major = v.major + 1 /\ version.minor = 0 /\ version.patch = 0
      /\ bump_type = MINOR =>
           version.major = v.major /\ version.minor = v.minor + 1 /\ version.patch = 0
      /\ bump_type = PATCH =>
           version.major = v.major /\ version.minor = v.minor
             /\ version.patch = v.patch + 1
      /\ version.pre = <<>> /\ version.build = <<>>
      /\ \A i \in 1..Len(new_version) : new_version[i] \in Digit \cup {"."}
      /\ VersionParse(new_version) = [ok |-> TRUE, v |-> version]

\* A minor bump of 1.2.9-rc.1+b5 has produced 1.3.0.
C1_Witness ==
    /\ Computed
    /\ current_version = VPreBld
    /\ bump_type = MINOR
    /\ new_version = <<"1", ".", "3", ".", "0">>

(***************************************************************************)
(* C2: get_current_version returns the version of the first of             *)
(* composer.json, package.json, VERSION that exists, is readable and (for  *)
(* the manifests) is a JSON object with a top-level string `version`; a    *)
(* source that does not qualify is skipped; the result is None exactly     *)
(* when no source qualifies.                                               *)
(***************************************************************************)
C2_DetectionPriority ==
    Took("Locate") =>
      IF Qualifies(start.composer)
      THEN source = "composer.json" /\ current_version = TopVersion(start.composer.content)
      ELSE IF Qualifies(start.package)
      THEN source = "package.json" /\ current_version = TopVersion(start.package.content)
      ELSE IF QualifiesText(start.versionFile)
      THEN source = "VERSION" /\ current_version = Trim(start.versionFile.content)
      ELSE source = "none" /\ Failed /\ ~Took("Parse")

\* All three sources qualify, with three different versions, and composer.json's
\* is the one detected.
C2_Witness ==
    /\ Took("Locate")
    /\ Qualifies(start.composer) /\ Qualifies(start.package)
    /\ QualifiesText(start.versionFile)
    /\ TopVersion(start.composer.content) = V010
    /\ TopVersion(start.package.content) = V999
    /\ start.versionFile.content = V222
    /\ current_version = V010

AllUpdatersRan ==
    /\ Took("Update(package.json)")
    /\ Took("Update(VERSION)")
    /\ Took("Update(composer.json)")

HoldsVersion(f, nv) == HasStringVersion(f.content) /\ TopVersion(f.content) = nv

(***************************************************************************)
(* C3                                                                      *)
(***************************************************************************)
\* C3 as stated: whenever a run exits with status 0, all three updaters have
\* run and every version-bearing file present (a manifest with a top-level
\* string `version`, and the VERSION file) holds the new version.
C3_Original ==
    Succeeded =>
      /\ AllUpdatersRan
      /\ (composer.exists /\ HasStringVersion(composer.content))
           => HoldsVersion(composer, new_version)
      /\ (package.exists /\ HasStringVersion(package.content))
           => HoldsVersion(package, new_version)
      /\ versionFile.exists => versionFile.content = new_version

\* C3 amended: whenever a run exits with status 0, all three updaters have
\* run and every version-bearing file whose read (for a manifest) and write
\* succeed holds the new version, whichever source the current version was
\* detected from and whatever version the file held before.
C3_Synchronized ==
    Succeeded =>
      /\ AllUpdatersRan
      /\ (Qualifies(composer) /\ composer.writable) => HoldsVersion(composer, new_version)
      /\ (Qualifies(package) /\ package.writable) => HoldsVersion(package, new_version)
      /\ (versionFile.exists /\ versionFile.writable) => versionFile.content = new_version

\* Detected from composer.json (0.1.0); package.json held 9.9.9 and VERSION
\* 2.2.2; all three now hold 0.1.1.
C3_Witness ==
    /\ Succeeded
    /\ source = "composer.json" /\ current_version = V010
    /\ HoldsVersion(start.package, V999)
    /\ start.versionFile.content = V222
    /\ new_version = <<"0", ".", "1", ".", "1">>
    /\ HoldsVersion(composer, new_version)
    /\ HoldsVersion(package, new_version)
    /\ versionFile.content = new_version

ShapePreserved(old, cur) ==
    /\ cur.content.kind = "object"
    /\ KeysOf(cur.content) = KeysOf(old.content)
    /\ \A i \in 1..Len(old.content.members) :
         IF old.content.members[i].key = "version"
         THEN cur.content.members[i].val = JStr(new_version)
         ELSE cur.content.members[i] = old.content.members[i]

Skipped(f) == ~f.exists \/ (f.readable /\ ~HasStringVersion(f.content))

LacksVersion(f) ==
    /\ f.exists /\ f.content.kind = "object"
    /\ \A i \in 1..Len(f.content.members) : f.content.members[i].key # "version"

(***************************************************************************)
(* C5: an updater never writes a file it should skip. A manifest that does *)
(* not exist, is not a JSON object, has no `version` or has a non-string   *)
(* `version` is left exactly as it was; a missing VERSION is not created;  *)
(* a run that bumps via VERSION while package.json lacks `version` leaves  *)
(* package.json without the new version.                                   *)
(***************************************************************************)
C5_NoWriteWhenSkipped ==
    /\ Skipped(start.composer) => composer = start.composer
    /\ Skipped(start.package) => package = start.package
    /\ ~start.versionFile.exists => versionFile = start.versionFile
    /\ (Succeeded /\ source = "VERSION" /\ LacksVersion(start.package))
         => /\ LacksVersion(package)
            /\ \A i \in 1..Len(package.content.members) :
                 package.content.members[i].val.v # new_version

\* The run bumped VERSION 0.0.9 to 0.0.10 with a package.json holding only a
\* name and a composer.json whose `version` is a number.
C5_Witness ==
    /\ Succeeded
    /\ source = "VERSION"
    /\ LacksVersion(start.package) /\ start.package.readable
    /\ start.composer.readable /\ start.composer.content.kind = "object"
    /\ ~HasStringVersion(start.composer.content) /\ ~LacksVersion(start.composer)
    /\ versionFile.content = <<"0", ".", "0", ".", "1", "0">>

Printed(msg) == \E i \in 1..Len(stderr) : stderr[i] = msg

NoVersionFound == "No version found in composer.json, package.json, or VERSION file."

(***************************************************************************)
(* C6: every fatal outcome (no version found, invalid semantic version,    *)
(* invalid bump type, interactive cancel) ends the run with a non-zero     *)
(* exit status before any file write: whenever the run has ended with a    *)
(* non-zero status the three files are as they were at its start. When     *)
(* none of the three files exists the run ends non-zero with the           *)
(* "No version found" diagnostic.                                          *)
(***************************************************************************)
C6_FatalBeforeWrite ==
    /\ Failed =>
         /\ FilesUntouched
         /\ ~Took("Update(package.json)") /\ ~Took("Update(VERSION)")
         /\ ~Took("Update(composer.json)") /\ ~Took("Exit(0)")
    /\ (Took("Locate") /\ source = "none") => Failed /\ Printed(NoVersionFound)
    /\ (Took("Parse") /\ ~IsSemver(current_version))
         => Failed /\ Printed("Invalid semantic version")
    /\ (Took("Compute-New-Version") /\ bump_type \notin {MAJOR, MINOR, PATCH})
         => Failed /\ Printed("Invalid bump type")
    /\ (input.select \in {"canceled", "interrupted"}) => Failed
    /\ (Took("Locate") /\ ~start.composer.exists /\ ~start.package.exists
          /\ ~start.versionFile.exists)
         => Failed /\ Printed(NoVersionFound)

\* The run ended on an invalid bump type with three files it would have
\* rewritten.
C6_Witness ==
    /\ Failed
    /\ Printed("Invalid bump type")
    /\ Qualifies(composer) /\ composer.writable
    /\ Qualifies(package) /\ package.writable
    /\ versionFile.exists /\ versionFile.writable

(***************************************************************************)
(* C7: bump-type resolution. A --bump value equal to major, minor or patch *)
(* selects that kind; any other --bump value is fatal with a non-zero      *)
(* exit; without the flag an interactive choice selects that kind, a       *)
(* cancel or interrupt exits with status 130 without falling back, and any *)
(* other failure of the prompt reads one line of standard input, where     *)
(* major, minor or patch is taken and everything else, the empty line      *)
(* included, resolves to patch without aborting. The version is only ever  *)
(* computed with one of the three kinds.                                   *)
(***************************************************************************)
C7_DecisionTable ==
    /\ Took("Resolve-Bump-Type") =>
         /\ (input.flag = "some" /\ input.bump \in {MAJOR, MINOR, PATCH})
              => bump_type = input.bump /\ ~Failed
         /\ (input.flag = "some" /\ input.bump \notin {MAJOR, MINOR, PATCH})
              => (Took("Compute-New-Version")
                    => Failed /\ exit_code = ExitFailure /\ new_version = <<>>)
         /\ (input.flag = "none" /\ input.select = "ok")
              => bump_type = input.choice /\ ~Failed
         /\ (input.flag = "none" /\ input.select \in {"canceled", "interrupted"})
              => Failed /\ exit_code = ExitInterrupt /\ ~Took("Compute-New-Version")
         /\ (input.flag = "none" /\ input.select = "error")
              => /\ bump_type = IF Trim(input.line) \in {MAJOR, MINOR, PATCH}
                                THEN Trim(input.line) ELSE PATCH
                 /\ ~Failed
    /\ Computed => bump_type \in {MAJOR, MINOR, PATCH}

\* The fallback prompt read "Minor" and the run went through as a patch bump.
C7_Witness ==
    /\ Succeeded
    /\ input.select = "error"
    /\ input.line = <<"M", "i", "n", "o", "r", "\n">>
    /\ bump_type = PATCH
    /\ Printed("Invalid input. Defaulting to patch.")

AnyQualifies(st) ==
    Qualifies(st.composer) \/ Qualifies(st.package) \/ QualifiesText(st.versionFile)

\* The string of the first qualifying source, in priority order.
FirstString(st) ==
    IF Qualifies(st.composer) THEN TopVersion(st.composer.content)
    ELSE IF Qualifies(st.package) THEN TopVersion(st.package.content)
    ELSE Trim(st.versionFile.content)

SomeSourceValid(st) ==
    \/ Qualifies(st.composer) /\ IsSemver(TopVersion(st.composer.content))
    \/ Qualifies(st.package) /\ IsSemver(TopVersion(st.package.content))
    \/ QualifiesText(st.versionFile) /\ IsSemver(Trim(st.versionFile.content))

(***************************************************************************)
(* C8                                                                      *)
(***************************************************************************)
\* C8 as stated: the locator returns the first valid version string in
\* priority order, so the current version is a valid semantic version
\* whenever some present source holds one.
C8_Original ==
    (Took("Locate") /\ SomeSourceValid(start)) => IsSemver(current_version)

\* C8 amended: the locator returns the first version string found in
\* priority order without validating it; when the first qualifying source
\* holds a string that is not a valid semantic version, that string is the
\* current version, lower-priority sources are not consulted, and the run
\* ends with the invalid-semantic-version failure before any write.
C8_FirstFoundUnvalidated ==
    (Took("Parse") /\ AnyQualifies(start) /\ ~IsSemver(FirstString(start)))
      => /\ current_version = FirstString(start)
         /\ Failed /\ exit_code = ExitPanic
         /\ Printed("Invalid semantic version")
         /\ FilesUntouched

\* composer.json held "abc" and package.json a valid version; the run failed
\* on "abc".
C8_Witness ==
    /\ Failed /\ exit_code = ExitPanic
    /\ current_version = VWord
    /\ source = "composer.json"
    /\ Qualifies(start.package)
    /\ IsSemver(TopVersion(start.package.content))

\* The steps of a successful run, in the order main takes them.
SuccessfulRun ==
    <<"Locate", "Parse", "Resolve-Bump-Type", "Compute-New-Version",
      "Update(package.json)", "Update(VERSION)", "Update(composer.json)", "Exit(0)">>

\* The run of the state machine section, with manifests `a` and `b`.
ClaimedRun(a, b) ==
    <<"Locate", "Parse", "Resolve-Bump-Type", "Compute-New-Version",
      a, b, "Update(VERSION)", "Exit(0)">>

(***************************************************************************)
(* C9                                                                      *)
(***************************************************************************)
\* C9 as stated: a run proceeds along Locate, Parse, Resolve-Bump-Type,
\* Compute-New-Version, Update(Manifest A), Update(Manifest B),
\* Update(Plain File), Exit(0): both manifests are updated, in either order,
\* before the VERSION file, which is the last file updated before exit.
C9_Original ==
    \E o \in {ClaimedRun("Update(composer.json)", "Update(package.json)"),
              ClaimedRun("Update(package.json)", "Update(composer.json)")} :
        Len(trace) <= Len(o) /\ trace = SubSeq(o, 1, Len(trace))

\* C9 amended: a successful run is the strict linear sequence Locate, Parse,
\* Resolve-Bump-Type, Compute-New-Version, Update(package.json),
\* Update(VERSION), Update(composer.json), Exit(0), each step once, no loop
\* or retry: the VERSION file is updated between the two manifests and
\* composer.json is the last file updated before exit.
C9_LinearSequence ==
    /\ Len(trace) <= Len(SuccessfulRun)
    /\ trace = SubSeq(SuccessfulRun, 1, Len(trace))
    /\ Succeeded => trace = SuccessfulRun
    /\ composer # start.composer => Took("Update(VERSION)")
    /\ versionFile # start.versionFile => Took("Update(package.json)")

\* A successful run that rewrote all three files.
C9_Witness ==
    /\ Succeeded
    /\ trace = SuccessfulRun
    /\ composer # start.composer
    /\ package # start.package
    /\ versionFile # start.versionFile

\* A string no file holds, to see whether an updater would write.
Probe == <<"#">>

WouldRewrite(f) == update_json_version(f, Probe) # f

SourceFile(src) ==
    IF src = "composer.json" THEN composer
    ELSE IF src = "package.json" THEN package ELSE versionFile

SourceHolds(src, nv) ==
    IF src = "VERSION" THEN versionFile.content = nv
    ELSE HoldsVersion(SourceFile(src), nv)

==========================================================================
